---- MODULE Spec2Model ----
(***************************************************************************)
(* Model of scripts/autopilot_loop.py: the score engine, the task queue    *)
(* executor and the cycle controller.  One Cycle or GuardAbort step is one *)
(* call of run_cycle; the persisted documents (queue.json,                 *)
(* autopilot_state.json, market_snapshot.json, escalations.md, score.md)   *)
(* are the state.  Spec is a sequence of single runs; SpecLoop is one run  *)
(* with --loop; SpecFetch and SpecScore apply fetch_market_snapshot and    *)
(* build_scores to inputs drawn at their Init.                             *)
(***************************************************************************)
EXTENDS Integers, Sequences, FiniteSets, TLC

VARIABLES
    queue,        \* tasks/queue.json: the list under "tasks"
    state,        \* data/autopilot_state.json
    snapshot,     \* data/market_snapshot.json
    escalations,  \* tasks/escalations.md: its lines
    report,       \* score.md: the score table and the delta line
    runs,         \* how often each task's command was run
    exitCode,     \* exit code of the latest run_cycle call
    last,         \* what the latest completed cycle read, computed and returned
    prev,         \* outcome of the completed cycle before it, and whether its delta was 0
    clock,        \* the day of the latest completed cycle
    dirs,         \* which of the directories tasks/ and data/ exist
    driver,       \* main: "single" (no --loop), "loop" (inside while True), "exited"
    probe         \* SpecFetch, SpecScore: the inputs and the result of the latest call

vars == <<queue, state, snapshot, escalations, report, runs, exitCode, last, prev, clock,
          dirs, driver, probe>>

(* ------------------------------ bounds --------------------------------- *)

\* longest task queue drawn at Init
MaxTasks == 3

\* longest escalation log (a major task escalates in every cycle, unboundedly)
MaxEscalations == 2

(* --------------------------- basic values ------------------------------ *)

\* Python None / a missing key, and a present value
None == <<>>
Some(x) == <<x>>

Max2(a, b) == IF a >= b THEN a ELSE b
Min2(a, b) == IF a <= b THEN a ELSE b

\* dict.get(key, default)
Get(f, k, default) == IF k \in DOMAIN f THEN f[k] ELSE default

EmptyDict == [k \in {} |-> 0]

REPOS == {"fileview", "yazi", "lf", "nnn", "ranger"}

Dims == {"product", "ai_fit", "reliability", "ecosystem", "momentum"}

Metrics(s, f, o, p) ==
    [stargazers_count |-> s, forks_count |-> f, open_issues_count |-> o, pushed_at |-> p]

FALLBACK_METRICS ==
    [k \in REPOS |->
        CASE k = "fileview" -> Metrics(0, 0, 0, None)
          [] k = "yazi"     -> Metrics(32179, 701, 73, None)
          [] k = "lf"       -> Metrics(9026, 359, 66, None)
          [] k = "nnn"      -> Metrics(21191, 798, 2, None)
          [] k = "ranger"   -> Metrics(16834, 923, 921, None)]

BASE_SCORES ==
    [k \in REPOS |->
        CASE k = "fileview" -> [product |-> 22, ai_fit |-> 18, reliability |-> 10]
          [] k = "yazi"     -> [product |-> 33, ai_fit |-> 6, reliability |-> 12]
          [] k = "ranger"   -> [product |-> 29, ai_fit |-> 4, reliability |-> 13]
          [] k = "nnn"      -> [product |-> 24, ai_fit |-> 3, reliability |-> 14]
          [] k = "lf"       -> [product |-> 24, ai_fit |-> 3, reliability |-> 13]]

\* exit codes of run_cycle / branch_guard
CodeContinue == 0
CodeGuard == 2
CodeEscalate == 10
CodePivot == 11

(* ------------------------------ inputs --------------------------------- *)

\* what `git rev-parse --abbrev-ref HEAD` prints
Branches == {"develop", "main"}

\* the day read from the system clock in a cycle
Clock == {12, 20}

\* return code of the task's command
ExitCodes == {0, 1}

\* a live answer of the metrics provider for the product itself
LiveFileview == Metrics(99, 3, 1, Some(10))

Fail == None

\* the results of the (at most three) attempts of fetch_repo, per repository:
\* the provider is down, or it answers for fileview on the third attempt
FetchCases ==
    { [k \in REPOS |-> <<Fail, Fail, Fail>>],
      [k \in REPOS |-> IF k = "fileview" THEN <<Fail, Fail, Some(LiveFileview)>>
                                         ELSE <<Fail, Fail, Fail>>] }

(* ---------------------------- score engine ----------------------------- *)

\* math.log10(n) in units of 1e-6, for the star counts of the model
Log10Micro(n) ==
    CASE n = 1     -> 0
      [] n = 100   -> 2000000
      [] n = 9027  -> 3955543
      [] n = 16835 -> 4226213
      [] n = 21192 -> 4326172
      [] n = 32180 -> 4507586

\* round(num / den), ties to the even integer (Python round), num >= 0, den > 0
RoundHalfEven(num, den) ==
    LET q == num \div den
        r == num % den
    IN  IF 2 * r < den THEN q
        ELSE IF 2 * r > den THEN q + 1
        ELSE IF q % 2 = 0 THEN q ELSE q + 1

ecosystem_score(stars, max_stars) ==
    IF max_stars <= 0 THEN 1
    ELSE Max2(1, Min2(15, RoundHalfEven(15 * Log10Micro(stars + 1), Log10Micro(max_stars + 1))))

momentum_score(pushed_at, now) ==
    IF pushed_at = None THEN 1
    ELSE LET days == Max2(0, now - pushed_at[1])
         IN  IF days <= 1 THEN 10
             ELSE IF days <= 3 THEN 9
             ELSE IF days <= 7 THEN 8
             ELSE IF days <= 14 THEN 6
             ELSE IF days <= 30 THEN 4
             ELSE 2

RowTotal(row) ==
    row.product + row.ai_fit + row.reliability + row.ecosystem + row.momentum

\* scores["fileview"][key] += int(boost.get(key, 0)); the total is not recomputed here
apply_boosts(scores, st) ==
    LET boost == st.fileview_boost
    IN  [scores EXCEPT !["fileview"] =
            [product     |-> @.product + Get(boost, "product", 0),
             ai_fit      |-> @.ai_fit + Get(boost, "ai_fit", 0),
             reliability |-> @.reliability + Get(boost, "reliability", 0),
             ecosystem   |-> @.ecosystem + Get(boost, "ecosystem", 0),
             momentum    |-> @.momentum + Get(boost, "momentum", 0),
             total       |-> @.total]]

SetMax(S) == IF S = {} THEN 0 ELSE CHOOSE m \in S : \A x \in S : x <= m

\* one row of build_scores before apply_boosts
ScoreRow(k, repos, max_stars, now) ==
    LET repo_data == Get(repos, k, Metrics(0, 0, 0, None))
        eco == ecosystem_score(repo_data.stargazers_count, max_stars)
        mom == momentum_score(repo_data.pushed_at, now)
        base == BASE_SCORES[k]
    IN  [product     |-> base.product,
         ai_fit      |-> base.ai_fit,
         reliability |-> base.reliability,
         ecosystem   |-> eco,
         momentum    |-> mom,
         total       |-> base.product + base.ai_fit + base.reliability + eco + mom]

\* lines 140-153 of build_scores: a row for every key of BASE_SCORES
BaseRows(repos, max_stars, now) ==
    [k \in REPOS |-> ScoreRow(k, repos, max_stars, now)]

\* lines 154-157 of build_scores: the boosts, then the product's total again
Boosted(boosted) ==
    [boosted EXCEPT !["fileview"].total = RowTotal(boosted["fileview"])]

build_scores(snap, st, now) ==
    Boosted(apply_boosts(
        BaseRows(snap.repos,
                 SetMax({snap.repos[k].stargazers_count : k \in DOMAIN snap.repos}), now),
        st))

(* ------------------------- snapshot fetcher ---------------------------- *)

\* fetch_repo: the first successful attempt of at most three, else None
fetch_repo(attempts) ==
    LET n == Min2(3, Len(attempts))
        ok == {i \in 1..n : attempts[i] # Fail}
    IN  IF ok = {} THEN None
        ELSE attempts[CHOOSE i \in ok : \A j \in ok : i <= j]

\* mutant: the prior snapshot is not consulted
fetch_market_snapshot_without_previous(previous, fetched, now) ==
    [updated_at |-> Some(now),
     repos |-> [k \in REPOS |->
        LET data == fetch_repo(fetched[k])
        IN  IF data # None THEN data[1] ELSE FALLBACK_METRICS[k]]]

fetch_market_snapshot(previous, fetched, now) ==
    [updated_at |-> Some(now),
     repos |-> [k \in REPOS |->
        LET data == fetch_repo(fetched[k])
        IN  IF data # None THEN data[1]
            ELSE IF k \in DOMAIN previous.repos THEN previous.repos[k]
            ELSE FALLBACK_METRICS[k]]]

(* --------------------------- task executor ----------------------------- *)

StatusOf(t) == IF t.status = None THEN "todo" ELSE t.status[1]

\* mutant: the kind is read from a key no task has
KindOfMissingKey(t) == "normal"

KindOf(t) == IF t.kind = None THEN "normal" ELSE t.kind[1]

\* mutant: a failed or blocked task is selected again
FirstNotDone(tasks) ==
    LET todo == {i \in 1..Len(tasks) : StatusOf(tasks[i]) # "done"}
    IN  IF todo = {} THEN 0 ELSE CHOOSE i \in todo : \A j \in todo : i <= j

\* mutant: the last todo task is selected
LastTodo(tasks) ==
    LET todo == {i \in 1..Len(tasks) : StatusOf(tasks[i]) = "todo"}
    IN  IF todo = {} THEN 0 ELSE CHOOSE i \in todo : \A j \in todo : i >= j

\* mutant: a blocked task is selected again
FirstTodoOrBlocked(tasks) ==
    LET todo == {i \in 1..Len(tasks) : StatusOf(tasks[i]) \in {"todo", "blocked"}}
    IN  IF todo = {} THEN 0 ELSE CHOOSE i \in todo : \A j \in todo : i <= j

\* mutant: a major task is passed over
FirstTodoSkippingMajor(tasks) ==
    LET todo == {i \in 1..Len(tasks) :
                    StatusOf(tasks[i]) = "todo" /\ KindOf(tasks[i]) # "major"}
    IN  IF todo = {} THEN 0 ELSE CHOOSE i \in todo : \A j \in todo : i <= j

\* index of the first task whose status is todo, 0 when there is none
FirstTodo(tasks) ==
    LET todo == {i \in 1..Len(tasks) : StatusOf(tasks[i]) = "todo"}
    IN  IF todo = {} THEN 0 ELSE CHOOSE i \in todo : \A j \in todo : i <= j

\* the lines written when escalations.md does not exist: "# Escalations" and ""
EscalationHeader ==
    <<[text |-> "# Escalations", at |-> None, id |-> None, title |-> None],
      [text |-> "", at |-> None, id |-> None, title |-> None]>>

\* "- {now} | {id} | {title} | kind=major | action required"
EscalationLine(task, now) ==
    [text |-> "kind=major | action required",
     at |-> Some(now), id |-> Some(task.id), title |-> Some(task.title)]

\* mutant: the file is written anew in every escalation
write_escalation_truncating(log, task, now) ==
    Append(EscalationHeader, EscalationLine(task, now))

\* the file is rewritten as its text (the header when it does not exist) plus the line
write_escalation(log, task, now) ==
    Append(IF log = <<>> THEN EscalationHeader ELSE log, EscalationLine(task, now))

\* the escalation lines of the log, without the header
Entries(log) == SelectSeq(log, LAMBDA l : l.id # None)

\* mutant: a declared increment replaces the accumulated boost
MergeBoostReplaces(boost, task_boost) ==
    [k \in DOMAIN boost |-> IF k \in DOMAIN task_boost THEN task_boost[k] ELSE boost[k]]

MergeBoost(boost, task_boost) ==
    [k \in DOMAIN boost |-> IF k \in Dims THEN boost[k] + Get(task_boost, k, 0) ELSE boost[k]]

\* execute_task: the outcome and the documents after the call
execute_task(q, st, log, rn, rc, now) ==
    LET i == FirstTodo(q)
        same == [outcome |-> "no_task", queue |-> q, state |-> st, escalations |-> log,
                 runs |-> rn, returncode |-> None]
    IN  IF i = 0 THEN same
        ELSE IF KindOf(q[i]) = "major" THEN
            [same EXCEPT !.outcome = "major", !.escalations = write_escalation(log, q[i], now)]
        ELSE IF q[i].command = None THEN
            [same EXCEPT !.outcome = "blocked",
                         !.queue = [q EXCEPT ![i].status = Some("blocked"),
                                             ![i].result = Some("missing command")]]
        ELSE IF rc # 0 THEN
            [same EXCEPT !.outcome = "failed",
                         !.returncode = Some(rc),
                         !.runs = [rn EXCEPT ![i] = @ + 1],
                         !.queue = [q EXCEPT ![i].status = Some("failed"),
                                             ![i].result = Some("stderr")]]
        ELSE
            [same EXCEPT !.outcome = "done",
                         !.returncode = Some(rc),
                         !.runs = [rn EXCEPT ![i] = @ + 1],
                         !.queue = [q EXCEPT ![i].status = Some("done"),
                                             ![i].completed_at = Some(now)],
                         !.state = [st EXCEPT
                             !.fileview_boost = MergeBoost(@, q[i].boost),
                             !.completed_tasks = Append(@, q[i].id)]]

(* --------------------------- cycle controller -------------------------- *)

\* before = int(state["last_total"] or 0)
Before(st) == IF st.last_total = None THEN 0 ELSE st.last_total[1]

\* delta = after - before if before else 0
Delta(before, after) == IF before # 0 THEN after - before ELSE 0

\* mutant: the counter also counts cycles that completed no task
NoDeltaUpdateAnyOutcome(ndc, task_result, delta) ==
    IF delta = 0 THEN ndc + 1 ELSE 0

\* mutant: a cycle that completed no task resets the counter
NoDeltaUpdateResetOthers(ndc, task_result, delta) ==
    IF task_result = "done" /\ delta = 0 THEN ndc + 1 ELSE 0

NoDeltaUpdate(ndc, task_result, delta) ==
    IF task_result = "done"
    THEN IF delta = 0 THEN ndc + 1 ELSE 0
    ELSE ndc

\* mutant: pivot only after a third cycle without delta
DecisionLate(task_result, ndc) ==
    IF task_result = "major" THEN CodeEscalate
    ELSE IF ndc >= 3 THEN CodePivot
    ELSE CodeContinue

\* mutant: the counter is tested before the task's kind
DecisionPivotFirst(task_result, ndc) ==
    IF ndc >= 2 THEN CodePivot
    ELSE IF task_result = "major" THEN CodeEscalate
    ELSE CodeContinue

\* mutant: a task that failed or was blocked escalates
DecisionEscalatesFailures(task_result, ndc) ==
    IF task_result \in {"major", "failed", "blocked"} THEN CodeEscalate
    ELSE IF ndc >= 2 THEN CodePivot
    ELSE CodeContinue

\* mutant: only a cycle that completed a task can decide pivot
DecisionPivotOnDoneOnly(task_result, ndc) ==
    IF task_result = "major" THEN CodeEscalate
    ELSE IF task_result = "done" /\ ndc >= 2 THEN CodePivot
    ELSE CodeContinue

Decision(task_result, ndc) ==
    IF task_result = "major" THEN CodeEscalate
    ELSE IF ndc >= 2 THEN CodePivot
    ELSE CodeContinue

\* lines 304-322 of run_cycle: the report, the counter, the persisted state, the decision
Conclude(snap, ex, scores, before, now) ==
    LET after == scores["fileview"].total
        delta == Delta(before, after)
        ndc == NoDeltaUpdate(ex.state.no_delta_cycles, ex.outcome, delta)
        code == Decision(ex.outcome, ndc)
    IN  /\ snapshot' = snap
        /\ queue' = ex.queue
        /\ escalations' = ex.escalations
        /\ runs' = ex.runs
        /\ report' = Some([scores |-> scores, delta |-> delta])
        /\ state' = [ex.state EXCEPT !.no_delta_cycles = ndc,
                                     !.last_total = Some(after),
                                     !.last_task_result = Some(ex.outcome),
                                     !.last_cycle_at = Some(now)]
        /\ exitCode' = Some(code)
        /\ last' = Some([outcome |-> ex.outcome, returncode |-> ex.returncode,
                         before |-> state.last_total, after |-> after, delta |-> delta,
                         ndc_before |-> state.no_delta_cycles, code |-> code])
        /\ prev' = IF last = None THEN None
                   ELSE Some([outcome |-> last[1].outcome, zero_delta |-> last[1].delta = 0])
        /\ clock' = now

\* mutant: the scores are built from the state as loaded, before the task ran
ScoreBeforeExecution(snap, ex, now) ==
    Conclude(snap, ex, build_scores(snap, state, now), Before(state), now)

\* lines 299-303 of run_cycle: scoring follows the task's execution
Score(snap, ex, now) ==
    Conclude(snap, ex, build_scores(snap, ex.state, now), Before(state), now)

\* ensure_dirs: mkdir(parents=True, exist_ok=True) of tasks/ and data/
ensure_dirs(existing) == existing \cup {"tasks", "data"}

run_cycle(fetched, now, rc) ==
    /\ Len(Entries(escalations)) < MaxEscalations
    /\ dirs' = ensure_dirs(dirs)
    /\ Score(fetch_market_snapshot(snapshot, fetched, now),
             execute_task(queue, state, escalations, runs, rc, now), now)

\* branch_guard fails: sys.exit(2) before anything is loaded, after ensure_dirs
GuardAbort(branch) ==
    /\ branch # "develop"
    /\ dirs' = ensure_dirs(dirs)
    /\ exitCode' = Some(CodeGuard)
    /\ UNCHANGED <<queue, state, snapshot, escalations, report, runs, last, prev, clock>>

\* one call of run_cycle on the required branch; the system clock does not run
\* backwards from one cycle to the next
Cycle(branch, fetched, now, rc) ==
    /\ branch = "develop"
    /\ now >= clock
    /\ run_cycle(fetched, now, rc)

(* ------------------------------ the queue ------------------------------ *)

Task(id, kind, status, command, boost) ==
    [id |-> id, title |-> id, kind |-> kind, status |-> status, command |-> command,
     boost |-> boost, result |-> None, completed_at |-> None]

\* the tasks a queue is built from; "Z" has neither kind, status nor boost
TaskShapes == {"Z", "P", "N", "M", "B"}

MakeTask(id, shape) ==
    CASE shape = "Z" -> Task(id, None, None, Some("true"), EmptyDict)
      [] shape = "P" -> Task(id, Some("normal"), Some("todo"), Some("true"),
                             [k \in {"product"} |-> 2])
      [] shape = "N" -> Task(id, Some("normal"), Some("todo"), Some("true"),
                             [k \in {"ai_fit"} |-> -52])
      [] shape = "M" -> Task(id, Some("major"), Some("todo"), Some("true"),
                             [k \in {"product"} |-> 5])
      [] shape = "B" -> Task(id, Some("normal"), Some("todo"), None, EmptyDict)

Queues ==
    UNION {[1..n -> TaskShapes] : n \in 0..MaxTasks}

\* load_state's default document
DefaultState ==
    [fileview_boost |-> [k \in Dims |-> 0],
     last_total |-> None,
     no_delta_cycles |-> 0,
     completed_tasks |-> <<>>,
     last_task_result |-> None,
     last_cycle_at |-> None]

\* a checkout in which the loop has not run yet: no state, snapshot, log or
\* report; tasks/ exists when it holds a queue.json, data/ does not exist
Fresh ==
    /\ \E shapes \in Queues : queue = [i \in DOMAIN shapes |-> MakeTask(i, shapes[i])]
    /\ state = DefaultState
    /\ snapshot = [updated_at |-> None, repos |-> EmptyDict]
    /\ escalations = <<>>
    /\ report = None
    /\ runs = [i \in DOMAIN queue |-> 0]
    /\ exitCode = None
    /\ last = None
    /\ prev = None
    /\ clock = 0
    /\ dirs = IF queue = <<>> THEN {} ELSE {"tasks"}
    /\ probe = None

Init == Fresh /\ driver = "single"

\* the return codes the selected task's command can give; no command runs
\* (and no return code is read) unless a normal task with a command is selected
CommandResults(q) ==
    LET i == FirstTodo(q)
    IN  IF i # 0 /\ KindOf(q[i]) # "major" /\ q[i].command # None THEN ExitCodes ELSE {0}

\* each step is one run of main without --loop
Next ==
    \/ \E branch \in Branches : GuardAbort(branch) /\ UNCHANGED <<driver, probe>>
    \/ \E fetched \in FetchCases, now \in Clock, rc \in CommandResults(queue) :
            Cycle("develop", fetched, now, rc) /\ UNCHANGED <<driver, probe>>

Spec == Init /\ [][Next]_vars

(* --------------------------- main with --loop -------------------------- *)

\* mutant: the loop only ends on pivot
LoopExitsOnPivotOnly(code) == code = CodePivot

\* if code in (10, 11): return code
LoopExits(code) == code \in {CodeEscalate, CodePivot}

\* an iteration of while True in which branch_guard fails: sys.exit(2) raises
\* SystemExit through the loop and ends the process
LoopGuardAbort(branch) ==
    /\ driver = "loop"
    /\ GuardAbort(branch)
    /\ driver' = "exited"
    /\ UNCHANGED probe

\* an iteration of while True in which run_cycle returns: main returns the code
\* when it is 10 or 11, otherwise it sleeps and calls run_cycle again
LoopCycle(branch, fetched, now, rc) ==
    /\ driver = "loop"
    /\ Cycle(branch, fetched, now, rc)
    /\ driver' = IF LoopExits(exitCode'[1]) THEN "exited" ELSE "loop"
    /\ UNCHANGED probe

InitLoop == Fresh /\ driver = "loop"

\* the branch is read anew in every iteration: the checkout can change while
\* the driver sleeps
NextLoop ==
    \/ \E branch \in Branches : LoopGuardAbort(branch)
    \/ \E fetched \in FetchCases, now \in Clock, rc \in CommandResults(queue) :
            LoopCycle("develop", fetched, now, rc)

SpecLoop == InitLoop /\ [][NextLoop]_vars

(* ------------------- fetch_market_snapshot on its own ------------------ *)

\* a live answer of the metrics provider, per repository
LiveMetrics ==
    [k \in REPOS |-> IF k = "fileview" THEN LiveFileview
                     ELSE [FALLBACK_METRICS[k] EXCEPT !.pushed_at = Some(10)]]

\* what the provider would answer to successive calls for repository k: on the
\* first call, on the third call only, or not before a fourth call
AttemptCase(k, c) ==
    CASE c = 1 -> <<Some(LiveMetrics[k])>>
      [] c = 2 -> <<Fail, Fail, Some(LiveMetrics[k])>>
      [] c = 3 -> <<Fail, Fail, Fail, Some(LiveMetrics[k])>>

FetchInputs ==
    {[k \in REPOS |-> AttemptCase(k, c[k])] : c \in [REPOS -> {1, 2, 3}]}

\* one call of fetch_market_snapshot: market_snapshot.json is loaded, rebuilt and saved
FetchStep(fetched, now) ==
    /\ now >= clock
    /\ snapshot' = fetch_market_snapshot(snapshot, fetched, now)
    /\ probe' = Some(fetched)
    /\ clock' = now
    /\ UNCHANGED <<queue, state, escalations, report, runs, exitCode, last, prev, dirs, driver>>

InitFetch == Fresh /\ queue = <<>> /\ driver = "single"

NextFetch == \E fetched \in FetchInputs, now \in Clock : FetchStep(fetched, now)

SpecFetch == InitFetch /\ [][NextFetch]_vars

(* ------------------------ build_scores on its own ---------------------- *)

\* star counts a snapshot can hold for repository k: none, a live count, the default
StarCases(k) == {0, LiveFileview.stargazers_count, FALLBACK_METRICS[k].stargazers_count}

\* last pushes a snapshot can hold for repository k
PushCases(k) == IF k \in {"fileview", "yazi"} THEN {None, Some(10)} ELSE {None}

\* persisted snapshots: a record for every repository
ScoreSnapshots ==
    {[updated_at |-> Some(10),
      repos |-> [k \in REPOS |-> Metrics(stars[k], 0, 0, pushed[k])]] :
        stars \in {f \in [REPOS -> UNION {StarCases(k) : k \in REPOS}] :
                      \A k \in REPOS : f[k] \in StarCases(k)},
        pushed \in {f \in [REPOS -> {None, Some(10)}] :
                      \A k \in REPOS : f[k] \in PushCases(k)}}

\* boosts accumulated from done tasks that declared {product: 2}, {ecosystem: 2}
\* or {momentum: 1}, and no boost
ScoreBoosts ==
    {[k \in Dims |-> 0],
     [k \in Dims |-> IF k = "product" THEN 2 ELSE 0],
     [k \in Dims |-> IF k = "ecosystem" THEN 2 ELSE 0],
     [k \in Dims |-> IF k = "momentum" THEN 1 ELSE 0]}

\* one call of build_scores on the persisted snapshot and state
ScoreStep(now) ==
    /\ probe' = Some([scores |-> build_scores(snapshot, state, now), now |-> now])
    /\ UNCHANGED <<queue, state, snapshot, escalations, report, runs, exitCode, last, prev,
                   clock, dirs, driver>>

\* a checkout in which cycles have run: a snapshot and a boost are persisted
InitScore ==
    /\ \E snap \in ScoreSnapshots, boost \in ScoreBoosts :
          /\ snapshot = snap
          /\ state = [DefaultState EXCEPT !.fileview_boost = boost]
    /\ queue = <<>>
    /\ escalations = <<>>
    /\ report = None
    /\ runs = <<>>
    /\ exitCode = None
    /\ last = None
    /\ prev = None
    /\ clock = 0
    /\ dirs = {"tasks", "data"}
    /\ driver = "single"
    /\ probe = None

NextScore == \E now \in Clock : ScoreStep(now)

SpecScore == InitScore /\ [][NextScore]_vars

(* ------------------------------- claims -------------------------------- *)

\* a step that is a completed cycle (within [][...]_vars: not a stuttering step)
CycleStep == exitCode' # Some(CodeGuard)

Stagnant(rec) == rec # None /\ rec[1].outcome = "done" /\ rec[1].delta = 0

PrevStagnant == prev # None /\ prev[1].outcome = "done" /\ prev[1].zero_delta

\* C1 as stated: after two consecutive cycles that both report done with delta 0,
\* the decision of the cycle that follows them is pivot.
C1_ThirdCyclePivots ==
    [][(CycleStep /\ PrevStagnant /\ Stagnant(last)) => last'[1].code = CodePivot]_vars

\* C1 amended: of two consecutive cycles that both report done with delta 0, the
\* second already decides pivot; the cycle after them decides escalate when its
\* outcome is major, continue when it is done with a nonzero delta, pivot otherwise.
C1_SecondCyclePivots ==
    [][CycleStep =>
        /\ (Stagnant(last) /\ Stagnant(last')) => last'[1].code = CodePivot
        /\ (PrevStagnant /\ Stagnant(last)) =>
              last'[1].code =
                 IF last'[1].outcome = "major" THEN CodeEscalate
                 ELSE IF last'[1].outcome = "done" /\ last'[1].delta # 0 THEN CodeContinue
                 ELSE CodePivot]_vars

\* two consecutive done/zero-delta cycles have run, and the second returned pivot
C1_Witness ==
    PrevStagnant /\ Stagnant(last) /\ last[1].code = CodePivot /\ exitCode = Some(CodePivot)

\* C2: major decides escalate (also with the counter at 2 or more), else a counter
\* of 2 or more after the update decides pivot, else continue; the four exit codes
\* are pairwise distinct and a call returns exactly one of them.
C2_DecisionRule ==
    /\ Cardinality({CodeContinue, CodeGuard, CodeEscalate, CodePivot}) = 4
    /\ exitCode = None \/ exitCode \in {Some(CodeContinue), Some(CodeGuard), Some(CodeEscalate), Some(CodePivot)}
    /\ last = None => exitCode \in {None, Some(CodeGuard)}
    /\ last # None =>
          /\ exitCode \in {Some(last[1].code), Some(CodeGuard)}
          /\ last[1].outcome = state.last_task_result[1]
          /\ last[1].code =
                IF last[1].outcome = "major" THEN CodeEscalate
                ELSE IF state.no_delta_cycles >= 2 THEN CodePivot
                ELSE CodeContinue

\* a major task was escalated while the counter stood at 2
C2_Witness ==
    /\ last # None /\ last[1].outcome = "major"
    /\ state.no_delta_cycles >= 2
    /\ exitCode = Some(CodeEscalate)

\* C3: the counter is 0 after a done cycle with a nonzero delta, one more after a
\* done cycle with delta 0, unchanged after any other outcome, and never negative.
C3_CounterUpdate ==
    /\ state.no_delta_cycles >= 0
    /\ last = None => state.no_delta_cycles = 0
    /\ last # None =>
          state.no_delta_cycles =
             IF last[1].outcome = "done"
             THEN IF last[1].delta # 0 THEN 0 ELSE last[1].ndc_before + 1
             ELSE last[1].ndc_before

\* a done cycle with a nonzero delta has reset a counter that stood above 0
C3_Witness ==
    /\ last # None /\ last[1].outcome = "done" /\ last[1].delta # 0
    /\ last[1].ndc_before >= 1 /\ state.no_delta_cycles = 0

\* C4 as stated: a cycle with a nonzero delta or an outcome other than done sets
\* the counter to 0, so two done/zero-delta cycles with such a cycle between them
\* do not end in pivot.
C4_AnyOtherCycleResets ==
    [][CycleStep =>
        /\ (last'[1].delta # 0 \/ last'[1].outcome # "done") => state'.no_delta_cycles = 0
        /\ (PrevStagnant /\ last # None /\ ~Stagnant(last) /\ Stagnant(last')) =>
              last'[1].code # CodePivot]_vars

\* C4 amended: only a done cycle with a nonzero delta sets the counter to 0, a
\* cycle with another outcome leaves it as it is; two done/zero-delta cycles with
\* a done/nonzero-delta cycle between them leave the counter at 1 and do not
\* end in pivot.
C4_OnlyDoneDeltaResets ==
    [][CycleStep =>
        /\ (last'[1].outcome = "done" /\ last'[1].delta # 0) => state'.no_delta_cycles = 0
        /\ last'[1].outcome # "done" => state'.no_delta_cycles = state.no_delta_cycles
        /\ (PrevStagnant /\ last # None /\ last[1].outcome = "done" /\ last[1].delta # 0
              /\ Stagnant(last')) =>
              (state'.no_delta_cycles = 1 /\ last'[1].code = CodeContinue)]_vars

\* three tasks are done, the second with a nonzero delta and the third with delta 0
\* (the first cycle of a run reports delta 0): the third cycle returned continue
C4_Witness ==
    /\ Len(queue) = 3 /\ Len(state.completed_tasks) = 3
    /\ prev # None /\ prev[1].outcome = "done" /\ ~prev[1].zero_delta
    /\ Stagnant(last) /\ last[1].ndc_before = 0
    /\ state.no_delta_cycles = 1 /\ last[1].code = CodeContinue


Terminal == {"done", "failed", "blocked"}

\* task i is the one execute_task selects from q: the first whose status is todo
SelectedIn(q, i) ==
    /\ i \in 1..Len(q)
    /\ StatusOf(q[i]) = "todo"
    /\ \A j \in 1..(i - 1) : StatusOf(q[j]) # "todo"

\* C5: a task's status changes at most once, from todo to done, failed or blocked;
\* a task in one of these three states keeps all its fields and its command is
\* not run again (no command is run more than once).
C5_TaskLifecycle ==
    [][/\ Len(queue') = Len(queue)
       /\ \A i \in 1..Len(queue) :
            /\ StatusOf(queue[i]) \in Terminal => (queue'[i] = queue[i] /\ runs'[i] = runs[i])
            /\ StatusOf(queue'[i]) # StatusOf(queue[i]) =>
                  (StatusOf(queue[i]) = "todo" /\ StatusOf(queue'[i]) \in Terminal)
            /\ runs'[i] <= 1]_vars

\* a task failed or was blocked, and a later cycle went on to the next task
\* without running the first one again
C5_Witness ==
    \E i, j \in 1..Len(queue) :
        /\ i < j
        /\ StatusOf(queue[i]) \in {"failed", "blocked"}
        /\ StatusOf(queue[j]) \in Terminal
        /\ runs[i] <= 1

\* C6: one call changes at most one task, the changed task is the selected one
\* (the first todo task), and every other task keeps all its fields.
C6_OneTaskPerCall ==
    [][LET changed == {i \in 1..Len(queue) : queue'[i] # queue[i]}
       IN  /\ Len(queue') = Len(queue)
           /\ Cardinality(changed) <= 1
           /\ \A i \in changed :
                 /\ SelectedIn(queue, i)
                 /\ StatusOf(queue'[i]) \in Terminal]_vars

\* the second of three tasks was the latest to change: the first keeps its
\* terminal state and the third is an untouched todo task
C6_Witness ==
    /\ Len(queue) = 3
    /\ StatusOf(queue[1]) \in Terminal
    /\ StatusOf(queue[2]) \in Terminal
    /\ StatusOf(queue[3]) = "todo" /\ queue[3].result = None /\ queue[3].completed_at = None
    /\ last # None /\ last[1].outcome \in Terminal

\* C7: when the selected task is major, the cycle runs no command, leaves the
\* queue as it is (the task stays the selected todo task, so the next cycle does
\* the same), appends exactly one escalation line for that task, reports major
\* and returns the escalate code.
C7_MajorEscalates ==
    [][CycleStep =>
        \A i \in 1..Len(queue) :
            (SelectedIn(queue, i) /\ queue[i].kind = Some("major")) =>
                /\ queue' = queue
                /\ runs' = runs
                /\ SelectedIn(queue', i)
                /\ Len(Entries(escalations')) = Len(Entries(escalations)) + 1
                /\ SubSeq(escalations', 1, Len(escalations)) = escalations
                /\ escalations'[Len(escalations')].id = Some(queue[i].id)
                /\ last'[1].outcome = "major"
                /\ last'[1].returncode = None
                /\ exitCode' = Some(CodeEscalate)]_vars

\* the same major task was escalated in two cycles and is still todo, never run
C7_Witness ==
    /\ Len(Entries(escalations)) >= 2
    /\ Entries(escalations)[1].id = Entries(escalations)[2].id
    /\ \E i \in 1..Len(queue) :
          /\ SelectedIn(queue, i)
          /\ queue[i].kind = Some("major")
          /\ Some(queue[i].id) = Entries(escalations)[2].id
          /\ runs[i] = 0
    /\ exitCode = Some(CodeEscalate)

\* C8: no step lowers a boost dimension of the cycle state, whatever increments
\* the tasks declare.
C8_BoostNeverDecreases ==
    [][\A d \in Dims : state'.fileview_boost[d] >= state.fileview_boost[d]]_vars

\* C9: delta is this cycle's total minus the total persisted by the prior cycle,
\* and it is 0 exactly when there is no prior total or the two totals are equal.
C9_DeltaIsDifference ==
    last # None =>
        /\ report # None /\ report[1].delta = last[1].delta
        /\ state.last_total = Some(last[1].after)
        /\ last[1].delta = IF last[1].before = None THEN 0
                            ELSE last[1].after - last[1].before[1]
        /\ (last[1].delta = 0) <=>
              (last[1].before = None \/ last[1].before = Some(last[1].after))

\* C10: a normal task with a command that exits with 0 becomes done, its declared
\* increments are added to the boost (0 for an undeclared dimension), its id is
\* appended to completed_tasks, the outcome is done, and the scores of the same
\* cycle hold the merged boost in the product's sub-scores and total.
C10_SuccessfulExecution ==
    [][CycleStep =>
        \A i \in 1..Len(queue) :
            (/\ SelectedIn(queue, i)
             /\ queue[i].kind # Some("major")
             /\ queue[i].command # None
             /\ last'[1].returncode = Some(0)) =>
                /\ queue'[i].status = Some("done")
                /\ \A d \in Dims :
                      state'.fileview_boost[d] =
                          state.fileview_boost[d] + Get(queue[i].boost, d, 0)
                /\ state'.completed_tasks = Append(state.completed_tasks, queue[i].id)
                /\ last'[1].outcome = "done"
                /\ state'.last_task_result = Some("done")
                /\ LET row == report'[1].scores["fileview"]
                       plain == ScoreRow("fileview", snapshot'.repos,
                                    SetMax({snapshot'.repos[k].stargazers_count : k \in REPOS}),
                                    clock')
                   IN  /\ \A d \in Dims : row[d] = plain[d] + state'.fileview_boost[d]
                       /\ row.total = plain.total
                              + state'.fileview_boost["product"]
                              + state'.fileview_boost["ai_fit"]
                              + state'.fileview_boost["reliability"]
                              + state'.fileview_boost["ecosystem"]
                              + state'.fileview_boost["momentum"]
                       /\ state'.last_total = Some(row.total)]_vars

\* the task {kind: normal, command, boost: {product: 2}} ran with exit code 0:
\* it is done, its id is in completed_tasks, and the report of that cycle shows
\* the product sub-score 22 + 2
C10_Witness ==
    /\ last # None /\ last[1].outcome = "done" /\ last[1].returncode = Some(0)
    /\ state.fileview_boost["product"] = 2
    /\ state.fileview_boost["ai_fit"] = 0
    /\ report[1].scores["fileview"].product = 24
    /\ \E i \in 1..Len(queue) :
          /\ queue[i].status = Some("done")
          /\ Get(queue[i].boost, "product", 0) = 2
          /\ state.completed_tasks = <<queue[i].id>>

\* C11: a call of run_cycle on a branch other than develop returns the guard's
\* exit code 2 before any mutation: no task is selected or executed, nothing is
\* fetched, and the snapshot, the queue, the cycle state, the escalation log,
\* the report and the rest of the working tree are as they were.
C11_GuardAbortsBeforeAnyMutation ==
    [][exitCode' = Some(CodeGuard) =>
          UNCHANGED <<snapshot, queue, state, escalations, report, runs, last, dirs>>]_vars

\* C12 as stated: a run with --loop ends only when a cycle decided escalate or
\* pivot; no other result of a cycle ends it.
C12_OnlyEscalateOrPivotEndsLoop ==
    driver = "exited" => exitCode \in {Some(CodeEscalate), Some(CodePivot)}

\* C12 amended: with --loop the cycles run one after another; the run ends
\* exactly when a cycle decided escalate or pivot, with that code, or when the
\* branch guard of a cycle failed, with code 2; after a cycle that decided
\* continue the driver stays in the loop, and once it has ended no cycle runs.
C12_LoopEndsOnEscalatePivotOrGuard ==
    [][/\ driver = "loop"
       /\ exitCode' # Some(CodeGuard) => (last' # None /\ exitCode' = Some(last'[1].code))
       /\ driver' = IF exitCode' \in {Some(CodeEscalate), Some(CodePivot), Some(CodeGuard)}
                    THEN "exited" ELSE "loop"
       /\ exitCode' = Some(CodeContinue) => driver' = "loop"]_vars

\* the loop went on after a cycle that decided continue and was then ended by
\* the branch guard of the following cycle
C12_Witness ==
    /\ driver = "exited"
    /\ exitCode = Some(CodeGuard)
    /\ last # None /\ last[1].code = CodeContinue

\* C13: for every entity and every combination of fetch results, the record in
\* the saved snapshot is the live answer when one of the first three attempts
\* succeeds, else the record of the snapshot persisted before the call when it
\* has one, else exactly the static default; the saved snapshot has a record
\* for every tracked entity and the call completes whatever the fetches did.
C13_FallbackChain ==
    [][/\ probe' # None
       /\ DOMAIN snapshot'.repos = REPOS
       /\ \A k \in REPOS :
            LET answers == probe'[1][k]
                tried == {i \in 1..Len(answers) : i <= 3}
                ok == {i \in tried : answers[i] # Fail}
            IN  snapshot'.repos[k] =
                   IF ok # {} THEN LiveMetrics[k]
                   ELSE IF k \in DOMAIN snapshot.repos THEN snapshot.repos[k]
                   ELSE FALLBACK_METRICS[k]]_vars

\* in the latest call one entity was fetched live on the third attempt, one kept
\* the live record of an earlier snapshot because all attempts failed, and one
\* has the static default because it was never fetched
C13_Witness ==
    /\ probe # None
    /\ probe[1]["fileview"] = AttemptCase("fileview", 2)
    /\ snapshot.repos["fileview"] = LiveMetrics["fileview"]
    /\ probe[1]["yazi"] = AttemptCase("yazi", 3)
    /\ snapshot.repos["yazi"] = LiveMetrics["yazi"]
    /\ probe[1]["lf"] = AttemptCase("lf", 3)
    /\ snapshot.repos["lf"] = FALLBACK_METRICS["lf"]

\* C14: in every breakdown build_scores returns, for every snapshot, every boost
\* and every entity, the product itself included, the ecosystem sub-score is in
\* 1..15 and the momentum sub-score in 1..10; when no repository has a star the
\* ecosystem sub-score is 1 for every entity, and an entity without a last push
\* has momentum 1.
C14_SubScoreRanges ==
    probe # None =>
        \A k \in REPOS :
            LET row == probe[1].scores[k]
            IN  /\ row.ecosystem \in 1..15
                /\ row.momentum \in 1..10
                /\ (\A j \in REPOS : snapshot.repos[j].stargazers_count = 0) => row.ecosystem = 1
                /\ snapshot.repos[k].pushed_at = None => row.momentum = 1

\* C15 as stated: the log after a cycle has the log before it as a prefix, it
\* is exactly one line longer after a cycle whose outcome is major and the same
\* after every other cycle.
C15_GrowsByOneLine ==
    [][/\ SubSeq(escalations', 1, Len(escalations)) = escalations
       /\ IF CycleStep /\ last'[1].outcome = "major"
          THEN Len(escalations') = Len(escalations) + 1
          ELSE escalations' = escalations]_vars

\* C15 amended: the log after a cycle has the log before it as a prefix; a cycle
\* whose outcome is major adds exactly one escalation line at the end, preceded
\* by the two header lines when the log did not exist; every other cycle leaves
\* the log as it is; no existing line is rewritten, reordered or removed.
C15_AppendOnly ==
    [][/\ SubSeq(escalations', 1, Len(escalations)) = escalations
       /\ IF CycleStep /\ last'[1].outcome = "major"
          THEN /\ Entries(escalations') =
                    Append(Entries(escalations), escalations'[Len(escalations')])
               /\ Len(escalations') =
                    Len(escalations) + (IF escalations = <<>> THEN 3 ELSE 1)
               /\ escalations # <<>> =>
                    escalations' = Append(escalations, escalations'[Len(escalations')])
          ELSE escalations' = escalations]_vars

\* a second escalation line was added to a log that still begins with its header
\* and the first escalation line
C15_Witness ==
    /\ Len(escalations) = 4
    /\ SubSeq(escalations, 1, 2) = EscalationHeader
    /\ escalations[3].id # None /\ escalations[4].id # None
    /\ last # None /\ last[1].outcome = "major"

\* C16: when the selected task has no command (blocked) or its command exits
\* nonzero (failed), the task's status and result are persisted in the queue,
\* the boost and completed_tasks stay as they are, and the cycle runs to its
\* end: the report holds this cycle's scores, the state holds last_total = the
\* product's total of this cycle and last_task_result = the outcome, and the
\* decision is pivot when the unchanged counter is 2 or more, else continue.
C16_FailureRecordedNotRaised ==
    [][CycleStep =>
        \A i \in 1..Len(queue) :
            (/\ SelectedIn(queue, i)
             /\ queue[i].kind # Some("major")
             /\ (queue[i].command = None \/ last'[1].returncode \notin {None, Some(0)})) =>
                LET outcome == IF queue[i].command = None THEN "blocked" ELSE "failed"
                IN  /\ last'[1].outcome = outcome
                    /\ queue'[i].status = Some(outcome)
                    /\ queue'[i].result # None
                    /\ queue[i].command = None => queue'[i].result = Some("missing command")
                    /\ \A j \in 1..Len(queue) : j # i => queue'[j] = queue[j]
                    /\ state'.fileview_boost = state.fileview_boost
                    /\ state'.completed_tasks = state.completed_tasks
                    /\ report' # None
                    /\ report'[1].scores = build_scores(snapshot', state', clock')
                    /\ state'.last_total = Some(report'[1].scores["fileview"].total)
                    /\ state'.last_task_result = Some(outcome)
                    /\ state'.no_delta_cycles = state.no_delta_cycles
                    /\ exitCode' = Some(IF state.no_delta_cycles >= 2 THEN CodePivot
                                        ELSE CodeContinue)]_vars

\* a command exited nonzero while the counter stood at 2: the task is failed with
\* its result, the cycle persisted its total and outcome and returned pivot
C16_Witness ==
    /\ last # None /\ last[1].outcome = "failed" /\ last[1].returncode = Some(1)
    /\ last[1].ndc_before = 2 /\ state.no_delta_cycles = 2
    /\ \E i \in 1..Len(queue) : queue[i].status = Some("failed") /\ queue[i].result # None
    /\ report # None
    /\ state.last_total = Some(last[1].after)
    /\ state.last_task_result = Some("failed")
    /\ exitCode = Some(CodePivot)

\* C17: when no task of the queue has status todo, a task without a status
\* counting as todo, execute_task returns no_task and changes nothing: every
\* task, the boost, completed_tasks and the escalation log are as before and no
\* command is run.
C17_NoTaskMutatesNothing ==
    [][(CycleStep /\ \A i \in 1..Len(queue) : queue[i].status \notin {None, Some("todo")}) =>
          /\ last'[1].outcome = "no_task"
          /\ state'.last_task_result = Some("no_task")
          /\ queue' = queue
          /\ state'.fileview_boost = state.fileview_boost
          /\ state'.completed_tasks = state.completed_tasks
          /\ escalations' = escalations
          /\ runs' = runs
          /\ last'[1].returncode = None]_vars

\* a task without a status was run as a todo task, the task after it was
\* blocked, and the cycle after that found no task
C17_Witness ==
    /\ Len(queue) = 2
    /\ queue[1].kind = None /\ queue[1].status = Some("done") /\ runs[1] = 1
    /\ queue[2].status = Some("blocked") /\ runs[2] = 0
    /\ last # None /\ last[1].outcome = "no_task"
    /\ state.last_task_result = Some("no_task")

\* C18: a task leaves the status todo only in a cycle before which every task
\* ahead of it in the queue had a status other than todo; while a major task
\* is the first todo task, no task behind it is run or changed; and at any time
\* the tasks in a terminal state are the first tasks of the queue, up to the
\* first major task that is still todo.
C18_StrictFifo ==
    [][/\ Len(queue') = Len(queue)
       /\ \A i \in 1..Len(queue) :
            /\ (StatusOf(queue[i]) = "todo" /\ StatusOf(queue'[i]) # "todo") =>
                  \A j \in 1..(i - 1) : StatusOf(queue[j]) # "todo"
            /\ (SelectedIn(queue, i) /\ KindOf(queue[i]) = "major") =>
                  \A j \in i..Len(queue) :
                      queue'[j] = queue[j] /\ runs'[j] = runs[j]
            /\ StatusOf(queue'[i]) \in Terminal =>
                  \A j \in 1..(i - 1) : StatusOf(queue'[j]) \in Terminal]_vars

\* the first task is done, the major task behind it was escalated in two
\* cycles and is still todo, and the task behind that was never run
C18_Witness ==
    /\ Len(queue) = 3
    /\ StatusOf(queue[1]) = "done"
    /\ KindOf(queue[2]) = "major" /\ StatusOf(queue[2]) = "todo"
    /\ KindOf(queue[3]) # "major" /\ queue[3].command # None
    /\ StatusOf(queue[3]) = "todo" /\ runs[3] = 0
    /\ Len(Entries(escalations)) = 2

\* the tasks of q whose status is done, in queue order
DoneTasks(q) == SelectSeq(q, LAMBDA t : StatusOf(t) = "done")

RECURSIVE DeclaredSum(_, _)
\* the sum of the increments the tasks of the sequence declare for dimension d
DeclaredSum(tasks, d) ==
    IF tasks = <<>> THEN 0
    ELSE Get(Head(tasks).boost, d, 0) + DeclaredSum(Tail(tasks), d)

\* C19: from an empty completed_tasks and a queue with unique ids and no done
\* task, after any sequence of cycles completed_tasks holds exactly the ids of
\* the done tasks, each once and in queue order, and the boost of every
\* dimension is the sum of the increments those tasks declare.
C19_CompletedTasksConsistent ==
    LET done == DoneTasks(queue)
    IN  /\ state.completed_tasks = [i \in 1..Len(done) |-> done[i].id]
        /\ \A i, j \in 1..Len(state.completed_tasks) :
              i # j => state.completed_tasks[i] # state.completed_tasks[j]
        /\ \A d \in Dims : state.fileview_boost[d] = DeclaredSum(done, d)

\* the first and the third task are done, both declaring {product: 2}, and the
\* task between them is not
C19_Witness ==
    /\ Len(queue) = 3
    /\ StatusOf(queue[1]) = "done" /\ Get(queue[1].boost, "product", 0) = 2
    /\ StatusOf(queue[2]) \in {"failed", "blocked"}
    /\ StatusOf(queue[3]) = "done" /\ Get(queue[3].boost, "product", 0) = 2
    /\ state.completed_tasks = <<queue[1].id, queue[3].id>>
    /\ state.fileview_boost["product"] = 4

\* C20: once a cycle has ended with no_delta_cycles >= 2, a following single run
\* whose outcome is no_task, blocked or failed decides pivot again and leaves
\* the counter as it is, one whose outcome is major decides escalate and leaves
\* the counter as it is, and the decision is continue only for a cycle whose
\* outcome is done with a nonzero delta.
C20_PivotIsSticky ==
    [][(CycleStep /\ state.no_delta_cycles >= 2) =>
          /\ last'[1].outcome \in {"no_task", "blocked", "failed"} =>
                (exitCode' = Some(CodePivot) /\ state'.no_delta_cycles = state.no_delta_cycles)
          /\ last'[1].outcome = "major" =>
                (exitCode' = Some(CodeEscalate) /\ state'.no_delta_cycles = state.no_delta_cycles)
          /\ exitCode' = Some(CodeContinue) =>
                (last'[1].outcome = "done" /\ last'[1].delta # 0)]_vars

\* after the counter had reached 2, a cycle with a blocked or failed task and
\* then a cycle without a task both returned pivot
C20_Witness ==
    /\ prev # None /\ prev[1].outcome \in {"blocked", "failed"}
    /\ last # None /\ last[1].outcome = "no_task" /\ last[1].ndc_before >= 2
    /\ state.no_delta_cycles >= 2
    /\ exitCode = Some(CodePivot)

====
